---- MODULE Spec2Model ----
(***************************************************************************)
(* Model of classplus_resolver.py: the three resolution strategies         *)
(* (_extract_with_ytdlp, _call_classplus_api, _probe_head) as operators on *)
(* the answers of their collaborators, and resolve_classplus_url as a      *)
(* state machine, one instance per concurrent call.                        *)
(***************************************************************************)
EXTENDS Integers, Sequences, FiniteSets, TLC

(* ---------------- Python values ---------------------------------------- *)
(* A value is a record [t, n, s]: t is the type tag, n the number of an    *)
(* int, s the characters of a str.  "absent" marks a key a dict lacks.     *)
PyNone == [t |-> "none", n |-> 0, s |-> <<>>]

Absent == [t |-> "absent", n |-> 0, s |-> <<>>]

Str(chars) == [t |-> "str", n |-> 0, s |-> chars]

Num(k) == [t |-> "int", n |-> k, s |-> <<>>]

Bool(b) == [t |-> "bool", n |-> IF b THEN 1 ELSE 0, s |-> <<>>]

(* bool(v): None, "", 0 are falsy *)
Truthy(v) ==
  CASE v.t = "str" -> Len(v.s) > 0
    [] v.t = "int" -> v.n # 0
    [] v.t = "bool" -> v.n # 0
    [] OTHER -> FALSE

(* dict.get(key): a missing key reads as None *)
Get(v) == IF v.t = "absent" THEN PyNone ELSE v

(* dict.get(key, default) *)
GetDefault(v, default) == IF v.t = "absent" THEN default ELSE v

IsNonEmptyStr(v) == v.t = "str" /\ Len(v.s) > 0

(* what a function call produces: exc is "none" or the exception class *)
Returns(v) == [exc |-> "none", val |-> v]

Raises(e) == [exc |-> e, val |-> PyNone]

(* ---------------- str methods ------------------------------------------ *)
LowerChar(ch) ==
  CASE ch = "A" -> "a" [] ch = "B" -> "b" [] ch = "C" -> "c"
    [] ch = "D" -> "d" [] ch = "E" -> "e" [] ch = "F" -> "f"
    [] ch = "G" -> "g" [] ch = "H" -> "h" [] ch = "I" -> "i"
    [] ch = "J" -> "j" [] ch = "K" -> "k" [] ch = "L" -> "l"
    [] ch = "M" -> "m" [] ch = "N" -> "n" [] ch = "O" -> "o"
    [] ch = "P" -> "p" [] ch = "Q" -> "q" [] ch = "R" -> "r"
    [] ch = "S" -> "s" [] ch = "T" -> "t" [] ch = "U" -> "u"
    [] ch = "V" -> "v" [] ch = "W" -> "w" [] ch = "X" -> "x"
    [] ch = "Y" -> "y" [] ch = "Z" -> "z"
    [] OTHER -> ch

(* str.lower() *)
Lower(chars) == [i \in 1..Len(chars) |-> LowerChar(chars[i])]

(* str.startswith(prefix) *)
StartsWith(chars, prefix) ==
  /\ Len(chars) >= Len(prefix)
  /\ SubSeq(chars, 1, Len(prefix)) = prefix

(* sub in chars *)
Contains(chars, sub) ==
  \E i \in 0..(Len(chars) - Len(sub)) : SubSeq(chars, i + 1, i + Len(sub)) = sub

(* int(a / b) for b > 0: truncation toward zero *)
TruncDiv(a, b) == IF a >= 0 THEN a \div b ELSE -((-a) \div b)

Min(a, b) == IF a <= b THEN a ELSE b

(* ---------------- _extract_with_ytdlp ---------------------------------- *)
HTTPS == <<"h", "t", "t", "p", "s">>

MediaExts ==
  { <<"m", "p", "4">>, <<"m", "4", "a">>, <<"w", "e", "b", "m">>,
    <<"m", "3", "u", "8">> }

(* A format descriptor is [url, ext, protocol, tbr, height], all values.   *)
(* f.get("ext", "").lower() raises when the key is present but not a str   *)
LowerFieldRaises(v) == GetDefault(v, Str(<<>>)).t # "str"

LowerField(v) == Lower(GetDefault(v, Str(<<>>)).s)

(* min(x, cap) / 1000 raises TypeError when a truthy x is not a number *)
NumFieldRaises(v) == Truthy(Get(v)) /\ Get(v).t # "int"

(* mutant: the value is not capped *)
NumScoreNoCap(v, cap, unit) ==
  IF Truthy(Get(v)) THEN TruncDiv(Get(v).n, unit) ELSE 0

NumScore(v, cap, unit) ==
  IF Truthy(Get(v)) THEN TruncDiv(Min(Get(v).n, cap), unit) ELSE 0

HasUrl(f) == Truthy(Get(f.url))

FormatRaises(f) ==
  \/ LowerFieldRaises(f.ext)
  \/ LowerFieldRaises(f.protocol)
  \/ NumFieldRaises(f.tbr)
  \/ NumFieldRaises(f.height)

Score(f) ==
  (IF StartsWith(LowerField(f.protocol), HTTPS) THEN 2 ELSE 0)
  + (IF LowerField(f.ext) \in MediaExts THEN 2 ELSE 0)
  + NumScore(f.tbr, 10000, 1000)
  + NumScore(f.height, 2160, 360)

(* indexes of the descriptors that become candidates, in input order *)
CandidateIdx(formats) == {i \in 1..Len(formats) : HasUrl(formats[i])}

(* candidates.append((score, f_url)) for the descriptors that have a url,  *)
(* in input order; idx remembers the descriptor a candidate came from      *)
RECURSIVE Candidates(_)
Candidates(formats) ==
  IF Len(formats) = 0 THEN <<>>
  ELSE LET n == Len(formats)
           before == Candidates(SubSeq(formats, 1, n - 1))
       IN IF HasUrl(formats[n])
          THEN Append(before, [score |-> Score(formats[n]),
                               url |-> Get(formats[n].url), idx |-> n])
          ELSE before

(* mutant: the sort is not stable, a later candidate passes its equals *)
InsertDescUnstable(sorted, x) ==
  LET k == Cardinality({i \in 1..Len(sorted) : sorted[i].score > x.score})
  IN SubSeq(sorted, 1, k) \o <<x>> \o SubSeq(sorted, k + 1, Len(sorted))

(* one step of the stable descending sort: x goes behind every element     *)
(* whose score is not smaller                                              *)
InsertDesc(sorted, x) ==
  LET k == Cardinality({i \in 1..Len(sorted) : sorted[i].score >= x.score})
  IN SubSeq(sorted, 1, k) \o <<x>> \o SubSeq(sorted, k + 1, Len(sorted))

(* candidates.sort(reverse=True, key=lambda x: x[0]) *)
RECURSIVE SortDesc(_)
SortDesc(cands) ==
  IF Len(cands) = 0 THEN <<>>
  ELSE InsertDesc(SortDesc(SubSeq(cands, 1, Len(cands) - 1)),
                  cands[Len(cands)])

(* candidates[0] after the sort *)
BestIdx(formats) == SortDesc(Candidates(formats))[1].idx

(* An info object or entry is [isNone, entries, formats, url]; entries and *)
(* formats are sequences, empty when the key is missing, None or [].       *)
(* mutant: the last entry of the playlist is taken *)
SelectEntryLast(info) ==
  IF ~info.isNone /\ Len(info.entries) > 0
  THEN info.entries[Len(info.entries)] ELSE info

SelectEntry(info) ==
  IF ~info.isNone /\ Len(info.entries) > 0 THEN info.entries[1] ELSE info

(* the loop stops at the first descriptor whose scoring raises; ext and    *)
(* protocol are lowered before tbr and height are read                     *)
FirstRaising(formats) ==
  CHOOSE i \in CandidateIdx(formats) :
    /\ FormatRaises(formats[i])
    /\ \A j \in CandidateIdx(formats) : FormatRaises(formats[j]) => i <= j

RaisedBy(f) ==
  IF LowerFieldRaises(f.ext) \/ LowerFieldRaises(f.protocol)
  THEN "AttributeError" ELSE "TypeError"

RankFormats(formats) ==
  IF \E i \in CandidateIdx(formats) : FormatRaises(formats[i])
  THEN Raises(RaisedBy(formats[FirstRaising(formats)]))
  ELSE IF CandidateIdx(formats) = {}
       THEN Returns(PyNone)
       ELSE Returns(SortDesc(Candidates(formats))[1].url)

(* mutant: the direct url is the fallback when ranking finds nothing *)
EntryResultFallback(entry) ==
  IF entry.isNone
  THEN Raises("AttributeError")
  ELSE IF Len(entry.formats) > 0 /\ RankFormats(entry.formats) # Returns(PyNone)
       THEN RankFormats(entry.formats)
       ELSE (IF Truthy(Get(entry.url)) THEN Returns(Get(entry.url))
             ELSE Returns(PyNone))

EntryResult(entry) ==
  IF entry.isNone
  THEN Raises("AttributeError")
  ELSE IF Len(entry.formats) = 0
       THEN (IF Truthy(Get(entry.url)) THEN Returns(Get(entry.url))
             ELSE Returns(PyNone))
       ELSE RankFormats(entry.formats)

(* cap is what ydl.extract_info did: [raised, info] *)
ExtractWithYtdlp(cap) ==
  IF cap.raised THEN Returns(PyNone) ELSE EntryResult(SelectEntry(cap.info))

(* ---------------- _call_classplus_api ---------------------------------- *)
(* mutant: the status of the response is not looked at *)
CallClassplusApiAnyStatus(http) ==
  IF http.failed THEN Returns(PyNone)
  ELSE IF ~http.json_ok THEN Returns(PyNone)
  ELSE IF http.is_dict /\ Truthy(Get(http.url)) THEN Returns(Get(http.url))
  ELSE Returns(PyNone)

(* http is what requests.get did: [failed, status, json_ok, is_dict, url]  *)
CallClassplusApi(http) ==
  IF http.failed THEN Returns(PyNone)
  ELSE IF http.status # 200 THEN Returns(PyNone)
  ELSE IF ~http.json_ok THEN Returns(PyNone)
  ELSE IF http.is_dict /\ Truthy(Get(http.url)) THEN Returns(Get(http.url))
  ELSE Returns(PyNone)

(* the requests.get calls of one _call_classplus_api call: line 88, once *)
ApiRequests(http) == 1

(* ---------------- _probe_head ------------------------------------------ *)
MediaTypes ==
  { <<"v", "i", "d", "e", "o">>,
    <<"a", "p", "p", "l", "i", "c", "a", "t", "i", "o", "n", "/", "v", "n",
      "d", ".", "a", "p", "p", "l", "e", ".", "m", "p", "e", "g", "u", "r",
      "l">>,
    <<"a", "p", "p", "l", "i", "c", "a", "t", "i", "o", "n", "/", "x", "-",
      "m", "p", "e", "g", "u", "r", "l">>,
    <<"a", "u", "d", "i", "o">>,
    <<"a", "p", "p", "l", "i", "c", "a", "t", "i", "o", "n", "/", "d", "a",
      "s", "h", "+", "x", "m", "l">> }

(* mutant: the content type is matched as it was sent *)
LooksLikeMediaCased(ctype) ==
  \E m \in MediaTypes : Contains(GetDefault(ctype, Str(<<>>)).s, m)

LooksLikeMedia(ctype) ==
  \E m \in MediaTypes : Contains(Lower(GetDefault(ctype, Str(<<>>)).s), m)

(* the requests one _probe_head call sends: the ranged GET only when       *)
(* requests.head raised                                                    *)
ProbeRequests(head) ==
  IF head.failed THEN <<"HEAD", "GET">> ELSE <<"HEAD">>

(* head and get are what requests.head / requests.get did:                 *)
(* [failed, status, ctype]                                                 *)
ProbeHead(head, get) ==
  IF ~head.failed THEN Returns(Bool(LooksLikeMedia(head.ctype)))
  ELSE IF get.failed THEN Returns(Bool(FALSE))
  ELSE Returns(Bool(LooksLikeMedia(get.ctype)))

(* ---------------- answers of the collaborators ------------------------- *)
U(ch) == Str(<<"u", ch>>)

Fmt(url, ext, protocol, tbr, height) ==
  [url |-> url, ext |-> ext, protocol |-> protocol, tbr |-> tbr,
   height |-> height]

Entity(formats, url) ==
  [isNone |-> FALSE, entries |-> <<>>, formats |-> formats, url |-> url]

NoneInfo == [isNone |-> TRUE, entries |-> <<>>, formats |-> <<>>, url |-> Absent]

Playlist(entries) ==
  [isNone |-> FALSE, entries |-> entries, formats |-> <<>>, url |-> Absent]

MP4 == <<"m", "p", "4">>

FormatsA ==
  << Fmt(U("a"), Str(<<"f", "l", "v">>), Str(<<"h", "t", "t", "p">>), Absent, Absent),
     Fmt(Absent, Str(MP4), Str(HTTPS), Num(9000), Num(2160)),
     Fmt(U("b"), Str(<<"M", "P", "4">>), Str(HTTPS), Num(5000), Num(1080)),
     Fmt(U("c"), Str(MP4), Str(HTTPS), Num(5000), Num(1080)) >>

InfoSamples ==
  { NoneInfo,
    Entity(<<>>, Absent),
    Entity(<<>>, Str(<<>>)),
    Entity(<<>>, U("d")),
    Entity(<<>>, Num(7)),
    Entity(FormatsA, U("d")),
    Entity(<<Fmt(Absent, Absent, Absent, Absent, Absent)>>, U("d")),
    Entity(<<Fmt(U("a"), PyNone, Absent, Absent, Absent)>>, Absent),
    Entity(<<Fmt(Num(7), Absent, Absent, Absent, Absent)>>, Absent),
    Entity(<<Fmt(U("a"), Absent, Absent, Str(<<"5">>), Absent)>>, Absent),
    Playlist(<<Entity(<<>>, U("e")), Entity(FormatsA, Absent)>>),
    Playlist(<<NoneInfo>>) }

CapSamples ==
  {[raised |-> TRUE, info |-> NoneInfo]}
  \cup {[raised |-> FALSE, info |-> i] : i \in InfoSamples}

Http(failed, status, json_ok, is_dict, url) ==
  [failed |-> failed, status |-> status, json_ok |-> json_ok,
   is_dict |-> is_dict, url |-> url]

HttpSamples ==
  { Http(TRUE, 0, FALSE, FALSE, Absent),
    Http(FALSE, 404, TRUE, TRUE, U("x")),
    Http(FALSE, 200, FALSE, FALSE, Absent),
    Http(FALSE, 200, TRUE, FALSE, Absent),
    Http(FALSE, 200, TRUE, TRUE, Absent),
    Http(FALSE, 200, TRUE, TRUE, Str(<<>>)),
    Http(FALSE, 200, TRUE, TRUE, PyNone),
    Http(FALSE, 200, TRUE, TRUE, U("x")),
    Http(FALSE, 200, TRUE, TRUE, Num(123)) }

Reply(failed, status, ctype) ==
  [failed |-> failed, status |-> status, ctype |-> ctype]

NoReply == Reply(TRUE, 0, Absent)

VideoMp4 == Str(<<"V", "i", "d", "e", "o", "/", "m", "p", "4">>)

TextHtml == Str(<<"t", "e", "x", "t", "/", "h", "t", "m", "l">>)

ReplySamples ==
  { NoReply,
    Reply(FALSE, 200, Absent),
    Reply(FALSE, 200, VideoMp4),
    Reply(FALSE, 405, TextHtml),
    Reply(FALSE, 206, Str(<<"a", "u", "d", "i", "o", "/", "x">>)) }

(* ---------------- resolve_classplus_url -------------------------------- *)
Calls == {"A", "B"}

Strategies == {"extract", "api", "probe"}

InputUrls == {U("1"), U("2")}

DefaultTimeout == 40

ExtractTimeout == 30

TickStep == 25

MaxTicks == 2

(* gets[c] counts the HTTP GETs call c sent to the API endpoint; unit is   *)
(* the single function call the function-level specification runs         *)
VARIABLES original_url, timeout, pc, worker, wres, executor, invoked,
          returned, raised, elapsed, late, gets, unit

vars == <<original_url, timeout, pc, worker, wres, executor, invoked,
          returned, raised, elapsed, late, gets, unit>>

NoUnit == [fn |-> "none", stage |-> "done"]

NoError == [exc |-> "none", url |-> PyNone]

(* no call has begun *)
NotStarted ==
  /\ timeout = [c \in Calls |-> DefaultTimeout]
  /\ pc = [c \in Calls |-> "START"]
  /\ worker = [c \in Calls |-> [s \in Strategies |-> "idle"]]
  /\ wres = [c \in Calls |-> [s \in Strategies |-> Returns(PyNone)]]
  /\ executor = [c \in Calls |-> [s \in Strategies |-> "none"]]
  /\ invoked = [c \in Calls |-> [s \in Strategies |-> 0]]
  /\ returned = [c \in Calls |-> PyNone]
  /\ raised = [c \in Calls |-> NoError]
  /\ elapsed = [c \in Calls |-> 0]
  /\ late = [c \in Calls |-> {}]
  /\ gets = [c \in Calls |-> 0]

Init ==
  /\ original_url \in [Calls -> InputUrls]
  /\ NotStarted
  /\ unit = NoUnit

TryState(s) ==
  CASE s = "extract" -> "TRY_EXTRACT"
    [] s = "api" -> "TRY_API"
    [] s = "probe" -> "TRY_PROBE"

(* mutant: the code gives up after the API step *)
NextAfterMissNoProbe(s) ==
  CASE s = "extract" -> "TRY_API"
    [] s = "api" -> "FAILED"
    [] s = "probe" -> "FAILED"

(* where the code goes after a step that produced nothing *)
NextAfterMiss(s) ==
  CASE s = "extract" -> "TRY_API"
    [] s = "api" -> "TRY_PROBE"
    [] s = "probe" -> "FAILED"

(* mutant: the clause names RuntimeError and TypeError only *)
CaughtNarrow(s, e) == e \in {"TypeError", "RuntimeError"}

(* except Exception: every class the strategies and the executor raise *)
Caught(s, e) == e \in {"AttributeError", "TypeError", "RuntimeError"}

(* mutant: the extraction step lacks its return *)
StepHitNoReturn(c, s, ret) ==
  s # "extract" /\ ret.exc = "none" /\ Truthy(ret.val)

(* mutant: a module-level set of resolved URLs makes a later call on the   *)
(* same URL skip its results                                               *)
StepHitOnce(c, s, ret) ==
  /\ ret.exc = "none" /\ Truthy(ret.val)
  /\ ~\E d \in Calls \ {c} :
        pc[d] = "SUCCEEDED" /\ original_url[d] = original_url[c]

(* if result: / if api_result: / if ok: *)
StepHit(c, s, ret) == ret.exc = "none" /\ Truthy(ret.val)

(* mutant: the probe step returns its own result *)
ReturnValueOk(c, s, ret) == ret.val

(* return result / return api_result / return original_url *)
ReturnValue(c, s, ret) == IF s = "probe" THEN original_url[c] ELSE ret.val

(* mutant: the API worker is dispatched without awaiting the extraction *)
MayDispatchEager(c, s) ==
  /\ worker[c][s] = "idle"
  /\ \/ pc[c] = TryState(s)
     \/ s = "api" /\ pc[c] = "TRY_EXTRACT" /\ worker[c]["extract"] # "idle"

(* mutant: a step whose worker brought nothing is dispatched again *)
MayDispatchRetry(c, s) ==
  /\ pc[c] = TryState(s)
  /\ \/ worker[c][s] = "idle"
     \/ worker[c][s] = "done" /\ ~Truthy(wres[c][s].val)

(* a step is entered when the code reaches it and its worker is not yet    *)
(* dispatched                                                              *)
MayDispatch(c, s) == pc[c] = TryState(s) /\ worker[c][s] = "idle"

(* mutant: the result is kept in a module-level variable the calls share *)
AwaitedShared(c, s) ==
  IF \E d \in Calls \ {c} : worker[d][s] = "done"
  THEN wres[CHOOSE d \in Calls \ {c} : worker[d][s] = "done"][s]
  ELSE wres[c][s]

(* the value the await of the step's own future delivers *)
Awaited(c, s) == wres[c][s]

(* raise RuntimeError(f"Unable to resolve media URL for: {original_url}") *)
Exhausted(c) == [exc |-> "RuntimeError", url |-> original_url[c]]

DeadlinePassed(c) == elapsed[c] > timeout[c]

(* the step ended without a result: go on, or give up after the probe *)
Miss(c, s) ==
  /\ pc' = [pc EXCEPT ![c] = NextAfterMiss(s)]
  /\ raised' = [raised EXCEPT ![c] =
                  IF NextAfterMiss(s) = "FAILED" THEN Exhausted(c) ELSE @]
  /\ UNCHANGED returned

(* an exception no except clause catches leaves the coroutine *)
Escapes(c, e) ==
  /\ pc' = [pc EXCEPT ![c] = "FAILED"]
  /\ raised' = [raised EXCEPT ![c] = [exc |-> e, url |-> PyNone]]
  /\ UNCHANGED returned

Hit(c, s, ret) ==
  /\ pc' = [pc EXCEPT ![c] = "SUCCEEDED"]
  /\ returned' = [returned EXCEPT ![c] = ReturnValue(c, s, ret)]
  /\ UNCHANGED raised

(* the code after the await of one step, up to the next step *)
AfterStep(c, s, ret) ==
  IF ret.exc # "none"
  THEN (IF Caught(s, ret.exc) THEN Miss(c, s) ELSE Escapes(c, ret.exc))
  ELSE IF StepHit(c, s, ret) THEN Hit(c, s, ret) ELSE Miss(c, s)

(* loop = asyncio.get_running_loop() *)
Begin(c) ==
  /\ pc[c] = "START"
  /\ pc' = [pc EXCEPT ![c] = "TRY_EXTRACT"]
  /\ UNCHANGED <<original_url, timeout, unit, gets, worker, wres, executor, invoked,
                 returned, raised, elapsed, late>>

(* with ThreadPoolExecutor(max_workers=1) as ex: loop.run_in_executor(...) *)
Dispatch(c, s) ==
  /\ MayDispatch(c, s)
  /\ executor' = [executor EXCEPT ![c][s] = "open"]
  /\ worker' = [worker EXCEPT ![c][s] = "running"]
  /\ invoked' = [invoked EXCEPT ![c][s] = @ + 1]
  /\ late' = [late EXCEPT ![c] = IF DeadlinePassed(c) THEN @ \cup {s} ELSE @]
  /\ UNCHANGED <<original_url, timeout, unit, gets, pc, wres, returned, raised, elapsed>>

(* the executor cannot start its thread: submit raises RuntimeError, the   *)
(* with block shuts the executor down and the except clause takes over     *)
DispatchRefused(c, s) ==
  /\ MayDispatch(c, s)
  /\ executor' = [executor EXCEPT ![c][s] = "shutdown"]
  /\ worker' = [worker EXCEPT ![c][s] = "refused"]
  /\ wres' = [wres EXCEPT ![c][s] = Raises("RuntimeError")]
  /\ AfterStep(c, s, Raises("RuntimeError"))
  /\ UNCHANGED <<original_url, timeout, unit, gets, invoked, elapsed, late>>

WorkerDone(c, s, ret) ==
  /\ worker[c][s] = "running"
  /\ worker' = [worker EXCEPT ![c][s] = "done"]
  /\ wres' = [wres EXCEPT ![c][s] = ret]
  /\ UNCHANGED <<original_url, timeout, unit, pc, executor, invoked, returned,
                 raised, elapsed, late>>

(* the worker thread runs _extract_with_ytdlp(original_url) *)
WorkerExtract(c) ==
  /\ \E cap \in CapSamples : WorkerDone(c, "extract", ExtractWithYtdlp(cap))
  /\ UNCHANGED gets

(* ydl.extract_info never returns: nothing bounds the call *)
CapabilityHangs(c) ==
  /\ worker[c]["extract"] = "running"
  /\ worker' = [worker EXCEPT ![c]["extract"] = "hung"]
  /\ UNCHANGED <<original_url, timeout, unit, gets, pc, wres, executor, invoked,
                 returned, raised, elapsed, late>>

(* the worker thread runs _call_classplus_api(original_url) *)
WorkerApi(c) ==
  \E http \in HttpSamples :
    /\ WorkerDone(c, "api", CallClassplusApi(http))
    /\ gets' = [gets EXCEPT ![c] = @ + ApiRequests(http)]

(* the worker thread runs _probe_head(original_url) *)
WorkerProbe(c) ==
  /\ \E head \in ReplySamples, get \in ReplySamples :
       WorkerDone(c, "probe", ProbeHead(head, get))
  /\ UNCHANGED gets

(* mutant: the executor is built without a with block and left open *)
ResumeNoShutdown(c, s) ==
  /\ pc[c] = TryState(s)
  /\ worker[c][s] = "done"
  /\ AfterStep(c, s, Awaited(c, s))
  /\ UNCHANGED <<original_url, timeout, unit, gets, worker, wres, invoked,
                 elapsed, late, executor>>

(* the await returns; leaving the with block shuts the executor down *)
Resume(c, s) ==
  /\ pc[c] = TryState(s)
  /\ worker[c][s] = "done"
  /\ executor' = [executor EXCEPT ![c][s] = "shutdown"]
  /\ AfterStep(c, s, Awaited(c, s))
  /\ UNCHANGED <<original_url, timeout, unit, gets, worker, wres, invoked, elapsed, late>>

(* time passes for a call while it waits for a worker *)
Tick(c) ==
  /\ \E s \in Strategies : worker[c][s] \in {"running", "hung"}
  /\ pc[c] \notin {"SUCCEEDED", "FAILED"}
  /\ elapsed[c] < MaxTicks * TickStep
  /\ elapsed' = [elapsed EXCEPT ![c] = @ + TickStep]
  /\ UNCHANGED <<original_url, timeout, unit, gets, pc, worker, wres, executor, invoked,
                 returned, raised, late>>

Next ==
  \E c \in Calls :
    \/ Begin(c)
    \/ \E s \in Strategies : Dispatch(c, s)
    \/ \E s \in Strategies : DispatchRefused(c, s)
    \/ WorkerExtract(c)
    \/ CapabilityHangs(c)
    \/ WorkerApi(c)
    \/ WorkerProbe(c)
    \/ \E s \in Strategies : Resume(c, s)
    \/ Tick(c)

Spec == Init /\ [][Next]_vars

TypeOK ==
  /\ pc \in [Calls -> {"START", "TRY_EXTRACT", "TRY_API", "TRY_PROBE",
                       "SUCCEEDED", "FAILED"}]
  /\ \A c \in Calls : \A s \in Strategies :
       /\ worker[c][s] \in {"idle", "running", "hung", "done", "refused"}
       /\ executor[c][s] \in {"none", "open", "shutdown"}
       /\ invoked[c][s] \in 0..1

(* the event loop runs every ready coroutine and every worker thread runs  *)
FairSpec == Spec /\ \A c \in Calls : WF_vars(
  \/ Begin(c)
  \/ \E s \in Strategies : Dispatch(c, s)
  \/ WorkerExtract(c) \/ CapabilityHangs(c) \/ WorkerApi(c) \/ WorkerProbe(c)
  \/ \E s \in Strategies : Resume(c, s))

(* ---------------- the functions called on their own -------------------- *)
MaxFormats == 3

MaxEntries == 2

SeqsUpTo(S, n) == UNION {[1..k -> S] : k \in 0..n}

FLV == <<"f", "l", "v">>

HTTP == <<"h", "t", "t", "p">>

FormatPool ==
  { Fmt(U("a"), Str(FLV), Str(HTTP), Absent, Absent),
    Fmt(Absent, Str(MP4), Str(HTTPS), Num(9000), Num(2160)),
    Fmt(Str(<<>>), Str(MP4), Str(HTTPS), Num(9000), Num(2160)),
    Fmt(U("b"), Str(MP4), Str(HTTPS), Num(5000), Num(1080)),
    Fmt(U("c"), Str(<<"M", "P", "4">>), Str(<<"H", "T", "T", "P", "S">>),
        Num(5000), Num(1080)),
    Fmt(U("d"), Str(<<"m", "3", "u", "8">>), Str(HTTP), Num(12000), Absent),
    Fmt(U("e"), PyNone, Str(HTTPS), Absent, Absent),
    Fmt(Num(7), Absent, PyNone, Absent, Absent),
    Fmt(U("f"), Absent, Absent, Str(<<"5">>), Absent) }

DirectUrls == {Absent, Str(<<>>), U("z"), Num(7)}

EntryPool ==
  { NoneInfo,
    Entity(<<>>, Absent),
    Entity(<<>>, U("e")),
    Entity(<<Fmt(U("b"), Str(MP4), Str(HTTPS), Num(5000), Num(1080))>>, U("y")) }

TopFormats == {<<>>, <<Fmt(U("a"), Str(FLV), Str(HTTP), Absent, Absent)>>}

Info(entries, formats, url) ==
  [isNone |-> FALSE, entries |-> entries, formats |-> formats, url |-> url]

InfoInputs ==
  {NoneInfo}
  \cup {Entity(fs, u) : fs \in SeqsUpTo(FormatPool, MaxFormats), u \in DirectUrls}
  \cup {Info(es, fs, u) : es \in SeqsUpTo(EntryPool, MaxEntries) \ {<<>>},
                          fs \in TopFormats, u \in {Absent, U("z")}}

CapInputs ==
  {[raised |-> TRUE, info |-> NoneInfo]}
  \cup {[raised |-> FALSE, info |-> i] : i \in InfoInputs}

HttpInputs ==
  { Http(failed, status, json_ok, is_dict, url) :
      failed \in BOOLEAN, status \in {200, 201, 404},
      json_ok \in BOOLEAN, is_dict \in BOOLEAN,
      url \in {Absent, PyNone, Str(<<>>), Num(0), U("x"), Num(123)} }

ReplyInputs ==
  {NoReply}
  \cup { Reply(FALSE, status, ctype) :
           status \in {200, 405},
           ctype \in { Absent, VideoMp4, TextHtml,
                       Str(<<"A", "U", "D", "I", "O">>),
                       Str(<<"a", "p", "p", "l", "i", "c", "a", "t", "i", "o",
                             "n", "/", "X", "-", "M", "p", "e", "g", "U", "R",
                             "L", ";", "q">>) } }

TbrInputs ==
  {-1500, -1000, -500, -1, 0, 1, 999, 1000, 5000, 9999, 10000, 10001, 25000}

HeightInputs == {-400, -360, -1, 0, 359, 360, 1080, 2159, 2160, 4320}

ScoreInputs ==
  { Fmt(U("a"), ext, protocol, tbr, height) :
      ext \in {Absent, Str(FLV), Str(MP4), Str(<<"m", "3", "u", "8">>)},
      protocol \in {Absent, Str(HTTP), Str(HTTPS)},
      tbr \in {Absent} \cup {Num(k) : k \in TbrInputs},
      height \in {Absent} \cup {Num(k) : k \in HeightInputs} }

pvars == <<original_url, timeout, pc, worker, wres, executor, invoked,
           returned, raised, elapsed, late, gets>>

FuncInit ==
  /\ original_url = [c \in Calls |-> U("1")]
  /\ NotStarted
  /\ \/ \E cap \in CapInputs :
          unit = [fn |-> "extract", stage |-> "call", cap |-> cap,
                  out |-> Returns(PyNone)]
     \/ \E http \in HttpInputs :
          unit = [fn |-> "api", stage |-> "call", http |-> http,
                  out |-> Returns(PyNone), sent |-> 0]
     \/ \E head \in ReplyInputs, get \in ReplyInputs :
          unit = [fn |-> "probe", stage |-> "call", head |-> head,
                  get |-> get, out |-> Returns(PyNone), requests |-> <<>>]
     \/ \E f \in ScoreInputs :
          unit = [fn |-> "score", stage |-> "call", f |-> f, out |-> 0]

(* _extract_with_ytdlp(url) runs to its end *)
ApplyExtract ==
  /\ unit.fn = "extract" /\ unit.stage = "call"
  /\ unit' = [unit EXCEPT !.stage = "done", !.out = ExtractWithYtdlp(unit.cap)]
  /\ UNCHANGED pvars

(* _call_classplus_api(url) runs to its end *)
ApplyApi ==
  /\ unit.fn = "api" /\ unit.stage = "call"
  /\ unit' = [unit EXCEPT !.stage = "done",
                           !.out = CallClassplusApi(unit.http),
                           !.sent = ApiRequests(unit.http)]
  /\ UNCHANGED pvars

(* _probe_head(url) runs to its end *)
ApplyProbe ==
  /\ unit.fn = "probe" /\ unit.stage = "call"
  /\ unit' = [unit EXCEPT !.stage = "done",
                           !.out = ProbeHead(unit.head, unit.get),
                           !.requests = ProbeRequests(unit.head)]
  /\ UNCHANGED pvars

(* one pass of the scoring loop over a descriptor that has a url *)
ApplyScore ==
  /\ unit.fn = "score" /\ unit.stage = "call"
  /\ unit' = [unit EXCEPT !.stage = "done", !.out = Score(unit.f)]
  /\ UNCHANGED pvars

FuncNext ==
  \/ ApplyExtract
  \/ ApplyApi
  \/ ApplyProbe
  \/ ApplyScore

FuncSpec == FuncInit /\ [][FuncNext]_vars

ExtractDone == unit.fn = "extract" /\ unit.stage = "done"

(* ---------------- properties ------------------------------------------- *)
Terminal(c) == pc[c] \in {"SUCCEEDED", "FAILED"}

Attempted(c, s) == worker[c][s] # "idle"

InFlight(c, s) == worker[c][s] \in {"running", "hung"}

Completed(c, s) ==
  worker[c][s] = "refused" \/ (worker[c][s] = "done" /\ executor[c][s] = "shutdown")

(* the strategy's worker produced a non-empty result *)
Produced(c, s) ==
  worker[c][s] = "done" /\ wres[c][s].exc = "none" /\ wres[c][s].val.t # "none"
  /\ wres[c][s].val # Bool(FALSE)

(* C1: a call returns the result of the first strategy, in the order       *)
(* extraction, API, probe, that yields a non-empty result, and no later    *)
(* strategy is invoked in that call.                                       *)
C1_FirstHitWins ==
  \A c \in Calls :
    /\ Produced(c, "extract") =>
         /\ invoked[c]["api"] = 0 /\ invoked[c]["probe"] = 0
         /\ ~Attempted(c, "api") /\ ~Attempted(c, "probe")
         /\ pc[c] \in {"TRY_EXTRACT", "SUCCEEDED"}
         /\ pc[c] = "SUCCEEDED" => returned[c] = wres[c]["extract"].val
    /\ Produced(c, "api") =>
         /\ invoked[c]["probe"] = 0 /\ ~Attempted(c, "probe")
         /\ pc[c] \in {"TRY_API", "SUCCEEDED"}
         /\ pc[c] = "SUCCEEDED" => returned[c] = wres[c]["api"].val
    /\ Produced(c, "probe") =>
         /\ pc[c] \in {"TRY_PROBE", "SUCCEEDED"}
         /\ pc[c] = "SUCCEEDED" => returned[c] = original_url[c]
    /\ pc[c] = "SUCCEEDED" => \E s \in Strategies : Produced(c, s)

C1_Witness ==
  \E c \in Calls :
    /\ pc[c] = "SUCCEEDED"
    /\ worker[c]["extract"] = "done" /\ ~Produced(c, "extract")
    /\ Produced(c, "api")
    /\ returned[c] = wres[c]["api"].val

(* C2: no strategy is started once the overall deadline of the call has    *)
(* been exceeded; a deadline that elapses during the extraction leaves the *)
(* API and the probe unstarted and ends the call in a timeout failure.     *)
C2_NoStartAfterDeadline ==
  \A c \in Calls :
    /\ late[c] = {}
    /\ (DeadlinePassed(c) /\ ~Attempted(c, "api") /\ Terminal(c)) =>
         (pc[c] = "FAILED" /\ raised[c].exc = "TimeoutError")

(* C3: an extraction that does not return within the extraction timeout    *)
(* is treated as empty, so every call eventually reaches SUCCEEDED or      *)
(* FAILED.                                                                 *)
C3_AlwaysTerminates == \A c \in Calls : <>Terminal(c)

(* C4: an exception raised in a step is caught at the pipeline boundary    *)
(* and acts as an empty result: the next strategy is attempted (after the  *)
(* probe, the call fails as exhausted) and the exception never reaches     *)
(* the caller.                                                             *)
C4_StepErrorIsMiss ==
  \A c \in Calls :
    /\ raised[c].exc # "none" => raised[c] = [exc |-> "RuntimeError", url |-> original_url[c]]
    /\ \A s \in Strategies :
         (Completed(c, s) /\ wres[c][s].exc # "none") =>
           CASE s = "extract" -> pc[c] = "TRY_API" \/ Attempted(c, "api")
             [] s = "api" -> pc[c] = "TRY_PROBE" \/ Attempted(c, "probe")
             [] s = "probe" -> pc[c] = "FAILED"

C4_Witness ==
  \E c \in Calls :
    /\ worker[c]["extract"] = "done"
    /\ wres[c]["extract"].exc = "AttributeError"
    /\ worker[c]["api"] = "refused"
    /\ Attempted(c, "probe")

(* C5: when extraction and API yield nothing and the probe returns true,   *)
(* the call returns exactly the original input URL.                        *)
C5_ProbeReturnsOriginal ==
  \A c \in Calls :
    (pc[c] = "SUCCEEDED" /\ ~Produced(c, "extract") /\ ~Produced(c, "api"))
      => (wres[c]["probe"] = Returns(Bool(TRUE)) /\ returned[c] = original_url[c])

C5_Witness ==
  \E c \in Calls :
    /\ pc[c] = "SUCCEEDED" /\ Completed(c, "probe")
    /\ wres[c]["probe"] = Returns(Bool(TRUE))
    /\ wres[c]["api"].val = PyNone

(* C6: a call fails only after all three strategies were attempted and     *)
(* none produced a result, and its failure names the original input URL.   *)
C6_FailsOnlyWhenExhausted ==
  \A c \in Calls :
    pc[c] = "FAILED" =>
      /\ \A s \in Strategies : Completed(c, s) /\ ~Produced(c, s)
      /\ raised[c].exc = "RuntimeError"
      /\ raised[c].url = original_url[c]

C6_Witness ==
  \E c \in Calls :
    /\ pc[c] = "FAILED"
    /\ \A s \in Strategies : invoked[c][s] = 1
    /\ raised[c].url = original_url[c]

(* C7: at most one strategy of a call is in flight; the API strategy       *)
(* starts only after the extraction has fully completed and the probe      *)
(* only after the API strategy has fully completed.                        *)
C7_OneInFlight ==
  \A c \in Calls :
    /\ Cardinality({s \in Strategies : InFlight(c, s)}) <= 1
    /\ Attempted(c, "api") => Completed(c, "extract")
    /\ Attempted(c, "probe") => Completed(c, "api")

C7_Witness ==
  \E c \in Calls :
    /\ InFlight(c, "api")
    /\ worker[c]["extract"] = "done" /\ executor[c]["extract"] = "shutdown"

(* C8: whenever a call returns successfully, the returned value is a       *)
(* non-empty string.                                                       *)
C8_ReturnsNonEmptyString ==
  \A c \in Calls : pc[c] = "SUCCEEDED" => IsNonEmptyStr(returned[c])

(* the outcome of a call run alone on url with the strategy results r *)
AloneOutcome(url, r) ==
  IF r["extract"].exc = "none" /\ Truthy(r["extract"].val)
  THEN [pc |-> "SUCCEEDED", returned |-> r["extract"].val, raised |-> NoError]
  ELSE IF r["api"].exc = "none" /\ Truthy(r["api"].val)
  THEN [pc |-> "SUCCEEDED", returned |-> r["api"].val, raised |-> NoError]
  ELSE IF r["probe"].exc = "none" /\ Truthy(r["probe"].val)
  THEN [pc |-> "SUCCEEDED", returned |-> url, raised |-> NoError]
  ELSE [pc |-> "FAILED", returned |-> PyNone,
        raised |-> [exc |-> "RuntimeError", url |-> url]]

(* C9: under every interleaving of concurrent calls, the outcome of each   *)
(* call is the one it has when run alone on its own input URL and the      *)
(* results of its own strategies.                                          *)
C9_CallsIndependent ==
  \A c \in Calls :
    Terminal(c) =>
      [pc |-> pc[c], returned |-> returned[c], raised |-> raised[c]]
        = AloneOutcome(original_url[c], wres[c])

C9_Witness ==
  \E c \in Calls : \E d \in Calls \ {c} :
    /\ pc[c] = "SUCCEEDED" /\ Produced(c, "api")
    /\ pc[d] = "TRY_API" /\ worker[d]["api"] = "done"
    /\ wres[d]["api"] # wres[c]["api"]
    /\ original_url[d] # original_url[c]

(* the collaborators gave calls c and d the same answers *)
SameAnswers(c, d) ==
  \A s \in Strategies :
    (Attempted(c, s) /\ Attempted(d, s)) =>
      (wres[c][s] = wres[d][s] /\ worker[c][s] = worker[d][s])

(* C10: two calls with the same input URL whose collaborators answer the   *)
(* same way end in the same outcome: the same URL or the same failure.     *)
C10_Idempotent ==
  \A c \in Calls : \A d \in Calls :
    (Terminal(c) /\ Terminal(d) /\ original_url[c] = original_url[d]
       /\ SameAnswers(c, d))
      => (pc[c] = pc[d] /\ returned[c] = returned[d] /\ raised[c] = raised[d])

C10_Witness ==
  \E c \in Calls : \E d \in Calls \ {c} :
    /\ pc[c] = "SUCCEEDED" /\ pc[d] = "SUCCEEDED"
    /\ original_url[c] = original_url[d]
    /\ SameAnswers(c, d)
    /\ Produced(c, "api") /\ Produced(d, "api")
    /\ returned[c] = returned[d]

(* the entity _extract_with_ytdlp works on in the current function call *)
UnitEntry == SelectEntry(unit.cap.info)

(* the current function call ranked a non-empty formats list to its end *)
Ranked ==
  /\ ExtractDone /\ ~unit.cap.raised /\ ~UnitEntry.isNone
  /\ Len(UnitEntry.formats) > 0
  /\ unit.out.exc = "none"

(* C11: whenever at least one descriptor has a url, the chosen URL is that *)
(* of a descriptor with a url whose score is at least the score of every   *)
(* other descriptor with a url, and the first such descriptor in input     *)
(* order; a descriptor without a url is never chosen.                      *)
C11_BestFirstMax ==
  (Ranked /\ \E i \in 1..Len(UnitEntry.formats) : Truthy(Get(UnitEntry.formats[i].url)))
    => LET fs == UnitEntry.formats
           withUrl == {i \in 1..Len(fs) : Truthy(Get(fs[i].url))}
       IN \E b \in withUrl :
            /\ unit.out.val = fs[b].url
            /\ BestIdx(fs) = b
            /\ \A j \in withUrl : Score(fs[j]) <= Score(fs[b])
            /\ \A j \in withUrl : Score(fs[j]) = Score(fs[b]) => b <= j

C11_Witness ==
  /\ Ranked
  /\ Len(UnitEntry.formats) = 3
  /\ ~Truthy(Get(UnitEntry.formats[1].url))
  /\ UnitEntry.formats[2].url = U("c") /\ UnitEntry.formats[3].url = U("d")
  /\ unit.out.val = U("c")

ApiDone == unit.fn = "api" /\ unit.stage = "done"

(* the response is a 200 whose body parses to an object with a non-empty   *)
(* url field (empty: missing, null, "" or another falsy value)             *)
GoodApiResponse(http) ==
  /\ ~http.failed /\ http.status = 200 /\ http.json_ok /\ http.is_dict
  /\ http.url \notin {Absent, PyNone, Str(<<>>), Num(0)}

(* C12: _call_classplus_api returns the url field verbatim exactly when    *)
(* the status is 200 and the body parses to an object with a non-empty url *)
(* field; in every other case it returns empty; it never raises.           *)
C12_ApiUrlOrEmpty ==
  ApiDone =>
    /\ unit.out.exc = "none"
    /\ GoodApiResponse(unit.http) => unit.out.val = unit.http.url
    /\ ~GoodApiResponse(unit.http) => unit.out.val = PyNone

C12_Witness ==
  /\ ApiDone
  /\ unit.http = Http(FALSE, 200, TRUE, TRUE, U("x"))
  /\ unit.out = Returns(U("x"))

ProbeDone == unit.fn = "probe" /\ unit.stage = "done"

(* the declared Content-Type of reply r contains a media type, whatever    *)
(* the case of its letters                                                 *)
DeclaresMedia(r) ==
  /\ ~r.failed /\ r.ctype.t = "str"
  /\ \E m \in MediaTypes : \E off \in 0..(Len(r.ctype.s) - Len(m)) :
       \A k \in 1..Len(m) : LowerChar(r.ctype.s[off + k]) = m[k]

(* C13: _probe_head never raises; it returns true iff a response was       *)
(* obtained (from HEAD, else from the ranged GET) and its Content-Type     *)
(* contains one of the media types case-insensitively; false when the      *)
(* header is absent and when both requests fail.                           *)
C13_ProbeIffMediaType ==
  ProbeDone =>
    /\ unit.out.exc = "none"
    /\ unit.out.val = Bool(IF ~unit.head.failed THEN DeclaresMedia(unit.head)
                           ELSE DeclaresMedia(unit.get))

C13_Witness ==
  /\ ProbeDone
  /\ unit.head.failed /\ unit.get = Reply(FALSE, 200, VideoMp4)
  /\ unit.out = Returns(Bool(TRUE))

(* C15: the ranged GET is issued whenever HEAD is unsupported (answered    *)
(* with 405 method-not-allowed) or fails at the transport level, and the   *)
(* content type of the GET response then decides the result.               *)
C15_GetFallback ==
  (ProbeDone /\ (unit.head.failed \/ unit.head.status = 405)) =>
    /\ \E i \in 1..Len(unit.requests) : unit.requests[i] = "GET"
    /\ unit.out.val = Bool(DeclaresMedia(unit.get))

(* C14: _extract_with_ytdlp never lets an exception escape: whatever the   *)
(* extraction capability does or returns, the function returns a URL or    *)
(* empty.                                                                  *)
C14_ExtractNeverRaises == ExtractDone => unit.out.exc = "none"

ScoreDone == unit.fn = "score" /\ unit.stage = "done"

Floor(a, b) == a \div b

(* the score the claim states, with quot as the integer quotient *)
StatedScore(f, quot(_, _)) ==
  (IF f.protocol.t = "str" /\ Len(f.protocol.s) >= 5
      /\ SubSeq(f.protocol.s, 1, 5) = <<"h", "t", "t", "p", "s">>
   THEN 2 ELSE 0)
  + (IF f.ext.t = "str"
        /\ f.ext.s \in { <<"m", "p", "4">>, <<"m", "4", "a">>,
                         <<"w", "e", "b", "m">>, <<"m", "3", "u", "8">> }
     THEN 2 ELSE 0)
  + (IF f.tbr.t = "int"
     THEN quot(IF f.tbr.n < 10000 THEN f.tbr.n ELSE 10000, 1000) ELSE 0)
  + (IF f.height.t = "int"
     THEN quot(IF f.height.n < 2160 THEN f.height.n ELSE 2160, 360) ELSE 0)

Example12 == Fmt(U("a"), Str(MP4), Str(HTTPS), Num(5000), Num(1080))

Example0 == Fmt(U("a"), Str(FLV), Str(HTTP), Absent, Absent)

SameFirstEntry(e) ==
  { Info(<<e>> \o tail, fs, u) :
      tail \in SeqsUpTo(EntryPool, MaxEntries - 1),
      fs \in TopFormats, u \in {Absent, U("z")} }

(* C17: with a non-empty entries collection the result is determined by    *)
(* the first entry alone: no change of the later entries or of the         *)
(* top-level formats and url changes it; without entries the result object *)
(* itself is the entity.                                                   *)
C17_FirstEntryOnly ==
  (ExtractDone /\ ~unit.cap.raised /\ ~unit.cap.info.isNone) =>
    /\ Len(unit.cap.info.entries) > 0 =>
         \A other \in SameFirstEntry(unit.cap.info.entries[1]) :
           ExtractWithYtdlp([raised |-> FALSE, info |-> other]) = unit.out
    /\ (Len(unit.cap.info.entries) = 0 /\ Len(unit.cap.info.formats) = 0
          /\ Truthy(Get(unit.cap.info.url)))
         => unit.out = Returns(unit.cap.info.url)

C17_Witness ==
  /\ ExtractDone
  /\ unit.cap.info =
       Info(<<Entity(<<>>, U("e")),
              Entity(<<Fmt(U("b"), Str(MP4), Str(HTTPS), Num(5000), Num(1080))>>, U("y"))>>,
            <<Fmt(U("a"), Str(FLV), Str(HTTP), Absent, Absent)>>, U("z"))
  /\ unit.out = Returns(U("e"))

(* C19: the entity's direct url is returned only when its formats list is  *)
(* absent or empty; with a non-empty formats list the result comes from    *)
(* ranking alone, so descriptors that all lack a url yield empty even when *)
(* the entity carries a direct url.                                        *)
C19_DirectUrlOnlyWithoutFormats ==
  (ExtractDone /\ ~unit.cap.raised /\ ~UnitEntry.isNone) =>
    LET fs == UnitEntry.formats
        direct == UnitEntry.url
    IN /\ Len(fs) = 0 =>
            unit.out = Returns(IF direct \in {Absent, PyNone, Str(<<>>), Num(0)}
                               THEN PyNone ELSE direct)
       /\ (Len(fs) > 0 /\ unit.out.exc = "none" /\ unit.out.val # PyNone) =>
            \E i \in 1..Len(fs) : unit.out.val = fs[i].url
       /\ (Len(fs) > 0
             /\ \A i \in 1..Len(fs) : fs[i].url \in {Absent, PyNone, Str(<<>>)})
            => unit.out = Returns(PyNone)

C19_Witness ==
  /\ ExtractDone /\ ~unit.cap.raised /\ ~UnitEntry.isNone
  /\ Len(UnitEntry.formats) = 2
  /\ \A i \in 1..2 : ~Truthy(Get(UnitEntry.formats[i].url))
  /\ UnitEntry.url = U("z")
  /\ unit.out = Returns(PyNone)

(* C18: within one call each strategy is invoked at most once and the API  *)
(* strategy sends at most one HTTP GET per invocation: a miss is never     *)
(* retried.                                                                *)
C18_NoRetry ==
  \A c \in Calls :
    /\ \A s \in Strategies : invoked[c][s] <= 1
    /\ gets[c] <= invoked[c]["api"]

C18_Witness ==
  \E c \in Calls :
    /\ pc[c] = "FAILED"
    /\ \A s \in Strategies : invoked[c][s] = 1
    /\ gets[c] = 1
    /\ wres[c]["api"] = Returns(PyNone)

(* C20: when a call has returned or raised, no worker it started is still  *)
(* running: every executor it built is shut down and its task completed.   *)
C20_NoWorkerLeftRunning ==
  \A c \in Calls :
    Terminal(c) =>
      \A s \in Strategies :
        /\ worker[c][s] \notin {"running", "hung"}
        /\ executor[c][s] # "open"
        /\ worker[c][s] = "done" => executor[c][s] = "shutdown"

C20_Witness ==
  \E c \in Calls :
    /\ pc[c] = "SUCCEEDED"
    /\ \A s \in Strategies : worker[c][s] = "done" /\ executor[c][s] = "shutdown"

====
